---------------------------- MODULE Spec2Model ----------------------------
(***************************************************************************)
(* Model of the effect-miner tool (tools/effect-miner): the CREATE3        *)
(* address derivation (create3.rs), the parallel salt search mine_salt    *)
(* and the batch entry point mine_multiple (miner.rs).                     *)
(*                                                                         *)
(* Bytes are integers 0..255, byte arrays are sequences (index k of the    *)
(* source is index k+1 here).  Option<T> is a sequence of length 0 (None)  *)
(* or 1 (Some).                                                            *)
(*                                                                         *)
(* Scaling.  The counter space of the source is u64 and a chunk holds      *)
(* 10_000 counters; the model keeps the arithmetic and scales the two      *)
(* sizes: counters range over 0 .. U64_MAX, u64 arithmetic wraps modulo    *)
(* U64_MAX + 1 or panics (the build's overflow checks decide), and a chunk *)
(* holds chunk_size counters.  keccak256 is an external primitive         *)
(* (tiny_keccak); it is modelled as one fixed deterministic function from  *)
(* byte strings to 32 bytes.                                               *)
(***************************************************************************)
EXTENDS Integers, Sequences, FiniteSets, TLC

(***************************************************************************)
(* Bounds of the model.                                                    *)
(***************************************************************************)
\* largest value of the counter type (u64::MAX in the source)
U64_MAX == 11
\* counters per chunk (10_000u64 in the source, miner.rs:46)
chunk_size == 3
\* largest bounded max_attempts away from the top of the counter range
MaxAttempts == 7
\* most counters of all targets of one mine_multiple call together
\* (targets times max_attempts_per_effect), away from the top of the range
MaxBatchWork == 8
\* threads of the rayon pool
NumWorkers == 2
\* longest effects list given to mine_multiple
MaxTargets == 2
\* calls of compute_create3_address on one salt and factory
MaxCalls == 2

Byte == 0 .. 255

None == << >>
Some(x) == << x >>

(***************************************************************************)
(* create3.rs                                                              *)
(***************************************************************************)
PROXY_INIT_CODE_HASH ==
    << 33, 195, 93, 190, 27, 52, 74, 36, 136, 207, 51, 33, 214, 206, 84, 47,
       142, 159, 48, 85, 68, 255, 9, 228, 153, 58, 98, 49, 154, 73, 124, 31 >>

RECURSIVE Absorb(_, _, _)
Absorb(data, lo, hi) ==
    IF lo > hi THEN 0
    ELSE IF lo = hi THEN (data[lo] * (1 + (lo % 7)) + lo) % 11
    ELSE LET mid == (lo + hi) \div 2
         IN  (Absorb(data, lo, mid) + 3 * Absorb(data, mid + 1, hi)) % 11

\* keccak256: a fixed deterministic function of the input bytes, 32 bytes out
keccak256(data) ==
    CHOOSE hash \in { [k \in 1 .. 32 |-> (h * 37 + k * 29 + h * h * k) % 256] :
                        h \in { (Absorb(data, 1, Len(data)) + Len(data)) % 11 } } : TRUE

\* mutant: the salt before the deployer
Create2Data_salt_first(deployer, salt, init_code_hash) ==
    << 255 >> \o salt \o deployer \o init_code_hash

Create2Data(deployer, salt, init_code_hash) ==
    << 255 >> \o deployer \o salt \o init_code_hash

compute_create2_address(deployer, salt, init_code_hash) ==
    LET data == Create2Data(deployer, salt, init_code_hash)
        hash == keccak256(data)
    IN  SubSeq(hash, 13, 32)

CreateNonce1Data(deployer) ==
    << 214, 148 >> \o deployer \o << 1 >>

compute_create_address_nonce_1(deployer) ==
    LET data == CreateNonce1Data(deployer)
        hash == keccak256(data)
    IN  SubSeq(hash, 13, 32)

compute_create3_address(salt, createx) ==
    LET proxy_address == compute_create2_address(createx, salt, PROXY_INIT_CODE_HASH)
    IN  compute_create_address_nonce_1(proxy_address)

NUM_EFFECT_STEPS == 9

\* mutant: the 16 bits taken from bytes 1 and 2 instead of bytes 0 and 1
extract_bitmap_offset1(address) ==
    LET top_16_bits == address[2] * 256 + address[3]
    IN  top_16_bits \div (2 ^ (16 - NUM_EFFECT_STEPS))

\* mutant: the shift for 8 steps instead of NUM_EFFECT_STEPS
extract_bitmap_shift8(address) ==
    LET top_16_bits == address[1] * 256 + address[2]
    IN  top_16_bits \div (2 ^ (16 - 8))

extract_bitmap(address) ==
    LET top_16_bits == address[1] * 256 + address[2]
    IN  top_16_bits \div (2 ^ (16 - NUM_EFFECT_STEPS))

\* mutant: the comparison inverted
matches_bitmap_inverted(address, target) ==
    extract_bitmap(address) # target

matches_bitmap(address, target_bitmap) ==
    extract_bitmap(address) = target_bitmap

(***************************************************************************)
(* miner.rs: the counter-to-salt mapping                                   *)
(***************************************************************************)
RECURSIVE BitXor(_, _)
BitXor(a, b) ==
    IF a = 0 THEN b
    ELSE IF b = 0 THEN a
    ELSE ((a + b) % 2) + 2 * BitXor(a \div 2, b \div 2)

RECURSIVE ShiftRightBytes(_, _)
ShiftRightBytes(x, n) ==
    IF n = 0 THEN x ELSE ShiftRightBytes(x \div 256, n - 1)

\* u64::to_be_bytes: 8 bytes, most significant first
to_be_bytes(i) == [j \in 1 .. 8 |-> ShiftRightBytes(i, 8 - j) % 256]

RECURSIVE BitOr(_, _)
BitOr(a, b) ==
    IF a = 0 THEN b
    ELSE IF b = 0 THEN a
    ELSE (IF a % 2 = 1 \/ b % 2 = 1 THEN 1 ELSE 0) + 2 * BitOr(a \div 2, b \div 2)

\* mutant: the counter bytes are OR-ed into the salt (|= for ^=)
CounterSalt_or(base, i) ==
    LET counter_bytes == to_be_bytes(i)
    IN  [k \in 1 .. 32 |->
            IF k >= 25 THEN BitOr(base[k], counter_bytes[k - 24]) ELSE base[k]]

\* mutant: the counter bytes least significant first (to_le_bytes)
CounterSalt_le(base, i) ==
    LET counter_bytes == to_be_bytes(i)
    IN  [k \in 1 .. 32 |->
            IF k >= 25 THEN BitXor(base[k], counter_bytes[33 - k]) ELSE base[k]]

\* salt_bytes[24 + j] ^= counter_bytes[j]
CounterSalt(base, i) ==
    LET counter_bytes == to_be_bytes(i)
    IN  [k \in 1 .. 32 |->
            IF k >= 25 THEN BitXor(base[k], counter_bytes[k - 24]) ELSE base[k]]

\* u64 arithmetic without overflow checks
Wrap(x) == x % (U64_MAX + 1)

\* miner.rs:50: max_attempts + chunk_size overflows u64
AddOverflows(max_attempts) ==
    max_attempts # 0 /\ max_attempts + chunk_size > U64_MAX

max_chunks(max_attempts) ==
    IF max_attempts = 0
    THEN U64_MAX \div chunk_size
    ELSE Wrap(Wrap(max_attempts + chunk_size) - 1) \div chunk_size

ChunkStart(chunk_idx) == chunk_idx * chunk_size

Min(a, b) == IF a < b THEN a ELSE b

ChunkEnd(chunk_idx, max_attempts) ==
    LET start == ChunkStart(chunk_idx)
    IN  IF max_attempts = 0
        THEN start + chunk_size
        ELSE Min(start + chunk_size, max_attempts)

MiningResult(salt, address, bitmap, att) ==
    [salt |-> salt, address |-> address, bitmap |-> bitmap, attempts |-> att]

\* mutant: the first 3 bytes of the name copied, not its first 20
NameSalt_first3(name) ==
    LET copy_len == Min(Len(name), 3)
    IN  [k \in 1 .. 32 |-> IF k <= copy_len THEN name[k] ELSE 0]

\* mutant: the whole name copied, not its first 20 bytes
NameSalt_untruncated(name) ==
    LET copy_len == Min(Len(name), 32)
    IN  [k \in 1 .. 32 |-> IF k <= copy_len THEN name[k] ELSE 0]

\* mine_multiple: the base salt derived from the effect name
NameSalt(name) ==
    LET copy_len == Min(Len(name), 20)
    IN  [k \in 1 .. 32 |-> IF k <= copy_len THEN name[k] ELSE 0]

(***************************************************************************)
(* Inputs of the model                                                     *)
(***************************************************************************)
\* 0xba5Ed099633D3B313e4D5F7bdc1305d3c28ba5Ed, the canonical CreateX address
CREATEX ==
    << 186, 94, 208, 153, 99, 61, 59, 49, 62, 77,
       95, 123, 220, 19, 5, 211, 194, 139, 165, 237 >>

OTHER_FACTORY == [k \in 1 .. 20 |-> k]

Factories == { CREATEX, OTHER_FACTORY }

ZeroSalt == [k \in 1 .. 32 |-> 0]

\* a base salt with bits set in the first 24 bytes and in the counter bytes
TailSalt == [k \in 1 .. 32 |->
                CASE k = 1 -> 171 [] k = 24 -> 9 [] k = 25 -> 255
                  [] k = 32 -> 6 [] OTHER -> 0]

BaseSalts == { ZeroSalt, TailSalt }

\* "StaminaRegen"
NameStaminaRegen == << 83, 116, 97, 109, 105, 110, 97, 82, 101, 103, 101, 110 >>
\* "StatBoosts"
NameStatBoosts == << 83, 116, 97, 116, 66, 111, 111, 115, 116, 115 >>
\* "RiseFromTheGraveEffect", 22 bytes
NameLong ==
    << 82, 105, 115, 101, 70, 114, 111, 109, 84, 104, 101,
       71, 114, 97, 118, 101, 69, 102, 102, 101, 99, 116 >>

\* "RiseFromTheGraveEffecu": the same first 20 bytes as NameLong
NameLong2 ==
    << 82, 105, 115, 101, 70, 114, 111, 109, 84, 104, 101,
       71, 114, 97, 118, 101, 69, 102, 102, 101, 99, 117 >>

Names == { NameStaminaRegen, NameStatBoosts, NameLong, NameLong2 }

CandidateBitmaps(f, b) ==
    { extract_bitmap(compute_create3_address(CounterSalt(b, i), f)) : i \in 0 .. U64_MAX }

\* targets that some candidate matches, 0x042 and a value no address has
TargetBitmaps(f) ==
    UNION { CandidateBitmaps(f, b) : b \in BaseSalts } \cup { 66, 600 }

CandidateBitmap(f, b, i) ==
    extract_bitmap(compute_create3_address(CounterSalt(b, i), f))

\* the effects mine_multiple is called with: a target that counter 1 of its
\* search has, the same target under another name, one that no address has,
\* and two names that agree on their first 20 bytes with the target that
\* their counter chunk_size has
BatchEffects(f) ==
    { << NameStaminaRegen, CandidateBitmap(f, NameSalt(NameStaminaRegen), 1) >>,
      << NameStatBoosts, CandidateBitmap(f, NameSalt(NameStaminaRegen), 1) >>,
      << NameStatBoosts, 600 >>,
      << NameLong, CandidateBitmap(f, NameSalt(NameLong), chunk_size) >>,
      << NameLong2, CandidateBitmap(f, NameSalt(NameLong), chunk_size) >> }

SeqsUpTo(S, n) == UNION { [1 .. m -> S] : m \in 0 .. n }

(***************************************************************************)
(* State                                                                   *)
(***************************************************************************)
VARIABLES
    createx_address,   \* the factory address of the call
    call,              \* the entry point called and its arguments
    status,            \* per search: "new", "running", "returned", "panicked"
    base,              \* per search: the base salt (miner.rs:38)
    found,             \* per search: the AtomicBool (miner.rs:34)
    attempts,          \* per search: the AtomicU64 (miner.rs:35)
    pending,           \* per search: chunk indices not yet handed to the closure
    running,           \* per search: chunk index -> locals of a running closure
    closure_results,   \* per search: the Some values closures have returned
    result,            \* per search: None before the return, then Some(return value)
    finished,          \* the searches in the order in which they returned
    evaluated,         \* per search: the salts whose address has been derived
    derived,           \* per search: the candidates whose address has been derived
    found_by,          \* per search: the stores to found in order, each with the chunk
                       \* of the storing closure and the value of attempts at the store
    collected,         \* mine_multiple: None, then Some(the collected vector)
    applied            \* what the functions of create3.rs returned when called on the
                       \* arguments of call, in call order

vars == << createx_address, call, status, base, found, attempts, pending,
           running, closure_results, result, finished, found_by, derived,
           evaluated, collected, applied >>

NumSearches ==
    CASE call.fn = "mine_salt" -> 1
      [] call.fn = "mine_multiple" -> Len(call.effects)
      [] OTHER -> 0

Searches == 1 .. NumSearches

target_bitmap(s) ==
    IF call.fn = "mine_salt" THEN call.target_bitmap ELSE call.effects[s][2]

max_attempts == call.max_attempts

MineSaltCalls(f) ==
    [ fn : {"mine_salt"},
      target_bitmap : TargetBitmaps(f),
      base_salt : {None} \cup { Some(b) : b \in BaseSalts },
      max_attempts : 0 .. MaxAttempts \cup { U64_MAX - chunk_size + 1, U64_MAX } ]

MineMultipleCalls(f) ==
    { c \in [ fn : {"mine_multiple"},
              effects : SeqsUpTo(BatchEffects(f), MaxTargets),
              max_attempts : 1 .. MaxBatchWork \cup { U64_MAX } ] :
        \/ c.max_attempts = U64_MAX
        \/ Len(c.effects) * c.max_attempts <= MaxBatchWork }

Idle ==
    /\ status = [s \in Searches |-> "new"]
    /\ base = [s \in Searches |-> ZeroSalt]
    /\ found = [s \in Searches |-> FALSE]
    /\ attempts = [s \in Searches |-> 0]
    /\ pending = [s \in Searches |-> {}]
    /\ running = [s \in Searches |-> << >>]
    /\ closure_results = [s \in Searches |-> {}]
    /\ result = [s \in Searches |-> None]
    /\ finished = << >>
    /\ found_by = [s \in Searches |-> << >>]
    /\ derived = [s \in Searches |-> 0]
    /\ evaluated = [s \in Searches |-> {}]
    /\ collected = None
    /\ applied = None

\* a call of mine_salt
Init ==
    /\ createx_address \in Factories
    /\ call \in MineSaltCalls(createx_address)
    /\ Idle

\* a call of mine_multiple
InitMultiple ==
    /\ createx_address = CREATEX
    /\ call \in MineMultipleCalls(createx_address)
    /\ Idle

(***************************************************************************)
(* mine_salt                                                               *)
(***************************************************************************)
\* closures running on the threads of the pool, over all searches
ActiveClosures ==
    LET RECURSIVE Sum(_)
        Sum(s) == IF s = 0 THEN 0 ELSE Cardinality(DOMAIN running[s]) + Sum(s - 1)
    IN  Sum(NumSearches)

Remove(f, c) == [d \in DOMAIN f \ {c} |-> f[d]]

\* miner.rs:34-51: the atomics, the base salt and the chunk range; the
\* addition of line 50 panics in a build with overflow checks and wraps in
\* a build without
MineSaltSetup(s, b) ==
    /\ base' = [base EXCEPT ![s] = b]
    /\ found' = [found EXCEPT ![s] = FALSE]
    /\ attempts' = [attempts EXCEPT ![s] = 0]
    /\ \/ /\ AddOverflows(max_attempts)
          /\ status' = [status EXCEPT ![s] = "panicked"]
          /\ UNCHANGED pending
       \/ /\ status' = [status EXCEPT ![s] = "running"]
          /\ pending' = [pending EXCEPT ![s] = 0 .. max_chunks(max_attempts) - 1]
    /\ UNCHANGED << createx_address, call, running, closure_results, result,
                    finished, found_by, derived, evaluated, collected, applied >>

\* mine_salt called directly: base_salt.unwrap_or_else(random)
MineSaltEnter ==
    /\ call.fn = "mine_salt"
    /\ status[1] = "new"
    /\ \E b \in (IF call.base_salt = None THEN BaseSalts ELSE { call.base_salt[1] }) :
          MineSaltSetup(1, b)

\* mine_multiple's closure for one effect: name-derived base salt, then mine_salt
MineMultipleMap(s) ==
    /\ call.fn = "mine_multiple"
    /\ status[s] = "new"
    /\ MineSaltSetup(s, NameSalt(call.effects[s][1]))

\* miner.rs:55-65: the closure starts on a chunk and reads the found flag
ChunkBegin(s, chunk_idx) ==
    /\ status[s] = "running"
    /\ chunk_idx \in pending[s]
    /\ ActiveClosures < NumWorkers
    /\ pending' = [pending EXCEPT ![s] = @ \ {chunk_idx}]
    /\ IF found[s]
       THEN UNCHANGED running
       ELSE running' = [running EXCEPT ![s] =
                (chunk_idx :> [ i |-> ChunkStart(chunk_idx),
                                end |-> ChunkEnd(chunk_idx, max_attempts),
                                pc |-> "loop", salt |-> << >>, address |-> << >> ]) @@ @]
    /\ UNCHANGED << createx_address, call, status, base, found, attempts,
                    closure_results, result, finished, found_by, derived,
                    evaluated, collected, applied >>

\* mutant: the loop does not read the found flag
LoopHead_no_check(s, chunk_idx) ==
    /\ chunk_idx \in DOMAIN running[s]
    /\ running[s][chunk_idx].pc = "loop"
    /\ LET l == running[s][chunk_idx]
       IN  IF l.i < l.end
           THEN running' = [running EXCEPT ![s][chunk_idx].pc = "body"]
           ELSE running' = [running EXCEPT ![s] = Remove(@, chunk_idx)]
    /\ UNCHANGED << createx_address, call, status, base, found, attempts, pending,
                    closure_results, result, finished, found_by, derived,
                    evaluated, collected, applied >>

\* miner.rs:67-70: next counter of the range, and the found flag read again
LoopHead(s, chunk_idx) ==
    /\ chunk_idx \in DOMAIN running[s]
    /\ running[s][chunk_idx].pc = "loop"
    /\ LET l == running[s][chunk_idx]
       IN  IF l.i < l.end /\ ~found[s]
           THEN running' = [running EXCEPT ![s][chunk_idx].pc = "body"]
           ELSE running' = [running EXCEPT ![s] = Remove(@, chunk_idx)]
    /\ UNCHANGED << createx_address, call, status, base, found, attempts, pending,
                    closure_results, result, finished, found_by, derived,
                    evaluated, collected, applied >>

\* miner.rs:72-80: derive the candidate's salt and address
Derive(s, chunk_idx) ==
    /\ chunk_idx \in DOMAIN running[s]
    /\ running[s][chunk_idx].pc = "body"
    /\ \E l \in { running[s][chunk_idx] } :
       \E salt \in { CounterSalt(base[s], l.i) } :
       \E address \in { compute_create3_address(salt, createx_address) } :
           /\ running' = [running EXCEPT ![s][chunk_idx] =
                   [l EXCEPT !.pc = "count", !.salt = salt, !.address = address]]
           /\ evaluated' = [evaluated EXCEPT ![s] = @ \cup { salt }]
    /\ derived' = [derived EXCEPT ![s] = @ + 1]
    /\ UNCHANGED << createx_address, call, status, base, found, attempts, pending,
                    closure_results, result, finished, found_by, collected, applied >>

\* mutant: the attempt is counted only when the candidate does not match
Candidate_count_misses(s, chunk_idx) ==
    /\ chunk_idx \in DOMAIN running[s]
    /\ running[s][chunk_idx].pc = "count"
    /\ \E l \in { running[s][chunk_idx] } :
           IF matches_bitmap(l.address, target_bitmap(s))
           THEN /\ running' = [running EXCEPT ![s][chunk_idx].pc = "store"]
                /\ UNCHANGED attempts
           ELSE /\ running' = [running EXCEPT ![s][chunk_idx] =
                        [l EXCEPT !.pc = "loop", !.i = l.i + 1,
                                  !.salt = << >>, !.address = << >>]]
                /\ attempts' = [attempts EXCEPT ![s] = @ + 1]
    /\ UNCHANGED << createx_address, call, status, base, found, pending,
                    closure_results, result, finished, found_by, derived, evaluated, collected,
                    applied >>

\* miner.rs:82-84: count the attempt (fetch_add), test the bitmap
Candidate(s, chunk_idx) ==
    /\ chunk_idx \in DOMAIN running[s]
    /\ running[s][chunk_idx].pc = "count"
    /\ \E l \in { running[s][chunk_idx] } :
           /\ attempts' = [attempts EXCEPT ![s] = @ + 1]
           /\ IF matches_bitmap(l.address, target_bitmap(s))
              THEN running' = [running EXCEPT ![s][chunk_idx].pc = "store"]
              ELSE running' = [running EXCEPT ![s][chunk_idx] =
                        [l EXCEPT !.pc = "loop", !.i = l.i + 1,
                                  !.salt = << >>, !.address = << >>]]
    /\ UNCHANGED << createx_address, call, status, base, found, pending,
                    closure_results, result, finished, found_by, derived, evaluated, collected,
                    applied >>

\* mutant: the match is returned without the store to found
FoundStore_skipped(s, chunk_idx) ==
    /\ chunk_idx \in DOMAIN running[s]
    /\ running[s][chunk_idx].pc = "store"
    /\ found_by' = [found_by EXCEPT ![s] =
                     Append(@, [ chunk |-> chunk_idx, attempts |-> attempts[s] ])]
    /\ running' = [running EXCEPT ![s][chunk_idx].pc = "some"]
    /\ UNCHANGED << createx_address, call, status, base, found, attempts, pending,
                    closure_results, result, finished, derived, evaluated, collected, applied >>

\* mutant: one found flag shared by all searches
FoundStore_shared(s, chunk_idx) ==
    /\ chunk_idx \in DOMAIN running[s]
    /\ running[s][chunk_idx].pc = "store"
    /\ found' = [o \in Searches |-> TRUE]
    /\ found_by' = [found_by EXCEPT ![s] =
                     Append(@, [ chunk |-> chunk_idx, attempts |-> attempts[s] ])]
    /\ running' = [running EXCEPT ![s][chunk_idx].pc = "some"]
    /\ UNCHANGED << createx_address, call, status, base, attempts, pending,
                    closure_results, result, finished, derived, evaluated, collected, applied >>

\* miner.rs:85: found.store(true)
FoundStore(s, chunk_idx) ==
    /\ chunk_idx \in DOMAIN running[s]
    /\ running[s][chunk_idx].pc = "store"
    /\ found' = [found EXCEPT ![s] = TRUE]
    /\ found_by' = [found_by EXCEPT ![s] =
                     Append(@, [ chunk |-> chunk_idx, attempts |-> attempts[s] ])]
    /\ running' = [running EXCEPT ![s][chunk_idx].pc = "some"]
    /\ UNCHANGED << createx_address, call, status, base, attempts, pending,
                    closure_results, result, finished, derived, evaluated, collected, applied >>

\* mutant: the result carries the winning counter's index + 1
ClosureSome_index(s, chunk_idx) ==
    /\ chunk_idx \in DOMAIN running[s]
    /\ running[s][chunk_idx].pc = "some"
    /\ LET l == running[s][chunk_idx]
           r == MiningResult(l.salt, l.address, extract_bitmap(l.address), l.i + 1)
       IN  closure_results' = [closure_results EXCEPT ![s] = @ \cup {r}]
    /\ running' = [running EXCEPT ![s] = Remove(@, chunk_idx)]
    /\ UNCHANGED << createx_address, call, status, base, found, attempts, pending,
                    result, finished, found_by, derived, evaluated, collected, applied >>

\* miner.rs:86-91: the closure returns Some(MiningResult), reading attempts
ClosureSome(s, chunk_idx) ==
    /\ chunk_idx \in DOMAIN running[s]
    /\ running[s][chunk_idx].pc = "some"
    /\ LET l == running[s][chunk_idx]
           r == MiningResult(l.salt, l.address, extract_bitmap(l.address), attempts[s])
       IN  closure_results' = [closure_results EXCEPT ![s] = @ \cup {r}]
    /\ running' = [running EXCEPT ![s] = Remove(@, chunk_idx)]
    /\ UNCHANGED << createx_address, call, status, base, found, attempts, pending,
                    result, finished, found_by, derived, evaluated, collected, applied >>

\* mutant: find_map_any may drop the Some values and give None
FindMapAnyReturn_or_none(s) ==
    /\ status[s] = "running"
    /\ pending[s] = {}
    /\ DOMAIN running[s] = {}
    /\ \E r \in { None } \cup { Some(x) : x \in closure_results[s] } :
          result' = [result EXCEPT ![s] = Some(r)]
    /\ status' = [status EXCEPT ![s] = "returned"]
    /\ finished' = Append(finished, s)
    /\ UNCHANGED << createx_address, call, base, found, attempts, pending, running,
                    closure_results, found_by, derived, evaluated, collected, applied >>

\* miner.rs:53-55, 96-98: find_map_any is over; it gives one of the Some values
\* the closures returned, or None when there is none
FindMapAnyReturn(s) ==
    /\ status[s] = "running"
    /\ pending[s] = {}
    /\ DOMAIN running[s] = {}
    /\ \E r \in (IF closure_results[s] = {} THEN { None }
                 ELSE { Some(x) : x \in closure_results[s] }) :
          result' = [result EXCEPT ![s] = Some(r)]
    /\ status' = [status EXCEPT ![s] = "returned"]
    /\ finished' = Append(finished, s)
    /\ UNCHANGED << createx_address, call, base, found, attempts, pending, running,
                    closure_results, found_by, derived, evaluated, collected, applied >>

(***************************************************************************)
(* mine_multiple                                                           *)
(***************************************************************************)
\* mutant: the pairs in the order in which the searches returned
Collect_completion_order ==
    /\ call.fn = "mine_multiple"
    /\ collected = None
    /\ \A s \in Searches : status[s] = "returned"
    /\ collected' = Some([k \in 1 .. Len(finished) |->
                            << call.effects[finished[k]][1], result[finished[k]][1] >>])
    /\ UNCHANGED << createx_address, call, status, base, found, attempts, pending,
                    running, closure_results, result, finished, found_by, derived,
                    evaluated, applied >>

\* miner.rs:115-128: collect() gives the (name, result) pairs in input order
Collect ==
    /\ call.fn = "mine_multiple"
    /\ collected = None
    /\ \A s \in Searches : status[s] = "returned"
    /\ collected' = Some([s \in Searches |-> << call.effects[s][1], result[s][1] >>])
    /\ UNCHANGED << createx_address, call, status, base, found, attempts, pending,
                    running, closure_results, result, finished, found_by, derived,
                    evaluated, applied >>

(***************************************************************************)
(* extract_bitmap and matches_bitmap applied to an address                 *)
(***************************************************************************)
\* every pair of leading bytes, the other 18 bytes zero
ProbeAddresses ==
    { [k \in 1 .. 20 |-> IF k = 1 THEN b0 ELSE IF k = 2 THEN b1 ELSE 0] :
        b0 \in Byte, b1 \in Byte }

\* 0x042, 0x1E0, the largest 9-bit value and a value above it
ProbeTargets == { 66, 480, 511, 600 }

InitBitmap ==
    /\ createx_address = CREATEX
    /\ call \in [ fn : {"bitmap"}, address : ProbeAddresses ]
    /\ Idle

ApplyBitmap ==
    /\ call.fn = "bitmap"
    /\ applied = None
    /\ applied' = Some([ bitmap |-> extract_bitmap(call.address),
                         matches |-> [t \in ProbeTargets |->
                                         matches_bitmap(call.address, t)] ])
    /\ UNCHANGED << createx_address, call, status, base, found, attempts, pending,
                    running, closure_results, result, finished, found_by, derived,
                    evaluated, collected >>

\* leading byte pairs around the bit that extract_bitmap cuts at
ProbeHeads ==
    { << 0, 0 >>, << 0, 127 >>, << 0, 128 >>, << 33, 0 >>, << 33, 127 >>,
      << 33, 128 >>, << 240, 0 >>, << 255, 255 >> }

\* bytes 2..20 of an address: zeros, ones, one bit in byte 2, one bit in byte 19
ProbeTails ==
    { [k \in 1 .. 18 |-> 0], [k \in 1 .. 18 |-> 255],
      [k \in 1 .. 18 |-> IF k = 1 THEN 128 ELSE 0],
      [k \in 1 .. 18 |-> IF k = 18 THEN 1 ELSE 0] }

PairAddresses == { h \o t : h \in ProbeHeads, t \in ProbeTails }

\* extract_bitmap called on two addresses
InitBitmapPair ==
    /\ createx_address = CREATEX
    /\ call \in [ fn : {"bitmap_pair"}, address : PairAddresses, other : PairAddresses ]
    /\ Idle

ApplyBitmapPair ==
    /\ call.fn = "bitmap_pair"
    /\ applied = None
    /\ applied' = Some([ bitmap |-> extract_bitmap(call.address),
                         other_bitmap |-> extract_bitmap(call.other) ])
    /\ UNCHANGED << createx_address, call, status, base, found, attempts, pending,
                    running, closure_results, result, finished, found_by, derived,
                    evaluated, collected >>

\* the salts compute_create3_address is called on: base salts, the salts of
\* their counters and the name-derived salts
DeriveSalts ==
    BaseSalts \cup { CounterSalt(b, i) : b \in BaseSalts, i \in 0 .. U64_MAX }
              \cup { NameSalt(n) : n \in Names }

\* compute_create3_address called repeatedly on one salt and factory
InitDerive ==
    /\ createx_address \in Factories
    /\ call \in [ fn : {"derive"}, salt : DeriveSalts ]
    /\ Idle

\* create3.rs:50-56: one call; applied holds the addresses returned so far
ApplyDerive ==
    /\ call.fn = "derive"
    /\ Len(applied) < MaxCalls
    /\ applied' = Append(applied, compute_create3_address(call.salt, createx_address))
    /\ UNCHANGED << createx_address, call, status, base, found, attempts, pending,
                    running, closure_results, result, finished, found_by, derived,
                    evaluated, collected >>

(***************************************************************************)
(* main.rs: the commands that take a bitmap literal                        *)
(***************************************************************************)
\* largest value of the type parse_bitmap returns (u16)
U16_MAX == 65535

\* a bitmap literal after trim and to_lowercase: its prefix ("0x", "0b" or
\* none) and the values of the characters after it (a character that is no
\* digit of any radix has value 36)
Literal(prefix, digits) == [ prefix |-> prefix, digits |-> digits ]

Ok(v) == [ ok |-> TRUE, value |-> v ]

Err(e) == [ ok |-> FALSE, error |-> e ]

RECURSIVE Horner(_, _, _)
Horner(digits, n, radix) ==
    IF n = 0 THEN 0 ELSE Horner(digits, n - 1, radix) * radix + digits[n]

\* u16::from_str_radix and str::parse::<u16>: an error for the empty string,
\* for a character that is no digit of the radix and for a value above u16
from_str_radix(digits, radix) ==
    IF Len(digits) = 0 THEN Err("empty")
    ELSE IF \E k \in 1 .. Len(digits) : digits[k] >= radix THEN Err("invalid digit")
    ELSE IF Horner(digits, Len(digits), radix) > U16_MAX THEN Err("too large")
    ELSE Ok(Horner(digits, Len(digits), radix))

\* main.rs:129-138
parse_bitmap(s) ==
    IF s.prefix = "0x" THEN from_str_radix(s.digits, 16)
    ELSE IF s.prefix = "0b" THEN from_str_radix(s.digits, 2)
    ELSE from_str_radix(s.digits, 10)

\* the decimal digits of v
RECURSIVE DecimalDigits(_)
DecimalDigits(v) ==
    IF v < 10 THEN << v >> ELSE Append(DecimalDigits(v \div 10), v % 10)

\* 66 as "0x042", "0b001000010" and "66"; 511 and 512 in the three forms;
\* 600; the largest u16 and the value above it; malformed literals; and the
\* bitmaps, in decimal, that counter 1 of the searches of Mine and MineAll has
BitmapLiterals ==
    { Literal("", DecimalDigits(CandidateBitmap(CREATEX, b, 1))) :
        b \in BaseSalts \cup { NameSalt(NameStaminaRegen) } } \cup
    { Literal("0x", << 0, 4, 2 >>), Literal("0b", << 0, 0, 1, 0, 0, 0, 0, 1, 0 >>),
      Literal("", << 6, 6 >>),
      Literal("0x", << 1, 15, 15 >>), Literal("0b", << 1, 1, 1, 1, 1, 1, 1, 1, 1 >>),
      Literal("", << 5, 1, 1 >>),
      Literal("0x", << 2, 0, 0 >>), Literal("0b", << 1, 0, 0, 0, 0, 0, 0, 0, 0, 0 >>),
      Literal("", << 5, 1, 2 >>),
      Literal("", << 6, 0, 0 >>), Literal("0x", << 15, 15, 15, 15 >>),
      Literal("0x", << 1, 0, 0, 0, 0 >>), Literal("", << 6, 5, 5, 3, 6 >>),
      Literal("", << >>), Literal("0b", << 1, 2 >>), Literal("", << 4, 36 >>) }

\* max_attempts on the command line: the default 0 and a small bound
CliMaxAttempts == { 0, chunk_size + 1 }

CliCalls ==
    [ fn : {"cli"}, command : {"Mine", "MineAll"}, bitmap : BitmapLiterals,
      max_attempts : CliMaxAttempts ]
    \cup [ fn : {"cli"}, command : {"Verify"}, bitmap : BitmapLiterals,
           address : PairAddresses ]

InitCli ==
    /\ createx_address = CREATEX
    /\ call \in CliCalls
    /\ Idle

\* the state in which a call of n searches starts (Idle, for the next state)
Started(n) ==
    /\ status' = [s \in 1 .. n |-> "new"]
    /\ base' = [s \in 1 .. n |-> ZeroSalt]
    /\ found' = [s \in 1 .. n |-> FALSE]
    /\ attempts' = [s \in 1 .. n |-> 0]
    /\ pending' = [s \in 1 .. n |-> {}]
    /\ running' = [s \in 1 .. n |-> << >>]
    /\ closure_results' = [s \in 1 .. n |-> {}]
    /\ result' = [s \in 1 .. n |-> None]
    /\ found_by' = [s \in 1 .. n |-> << >>]
    /\ derived' = [s \in 1 .. n |-> 0]
    /\ evaluated' = [s \in 1 .. n |-> {}]
    /\ UNCHANGED << createx_address, finished, collected >>

\* expect("Invalid bitmap"): the command ends with the error
CliError ==
    /\ applied' = Some(Err("Invalid bitmap"))
    /\ UNCHANGED << createx_address, call, status, base, found, attempts, pending,
                    running, closure_results, result, finished, found_by, derived,
                    evaluated, collected >>

\* main.rs:144-158: Mine parses the literal and calls mine_salt
CliMine ==
    /\ call.fn = "cli" /\ call.command = "Mine"
    /\ applied = None
    /\ LET bitmap_value == parse_bitmap(call.bitmap)
       IN  IF ~bitmap_value.ok
           THEN CliError
           ELSE /\ call' = [ fn |-> "mine_salt", target_bitmap |-> bitmap_value.value,
                             base_salt |-> None, max_attempts |-> call.max_attempts,
                             bitmap |-> call.bitmap ]
                /\ Started(1)
                /\ UNCHANGED applied

\* main.rs:195-224: MineAll parses the literal of each effect of the config
\* (one effect here) and calls mine_multiple
CliMineAll ==
    /\ call.fn = "cli" /\ call.command = "MineAll"
    /\ applied = None
    /\ LET bitmap == parse_bitmap(call.bitmap)
       IN  IF ~bitmap.ok
           THEN CliError
           ELSE /\ call' = [ fn |-> "mine_multiple",
                             effects |-> << << NameStaminaRegen, bitmap.value >> >>,
                             max_attempts |-> call.max_attempts,
                             bitmap |-> call.bitmap ]
                /\ Started(1)
                /\ UNCHANGED applied

\* main.rs:265-281: Verify parses the literal and compares it with the
\* bitmap of the address
CliVerify ==
    /\ call.fn = "cli" /\ call.command = "Verify"
    /\ applied = None
    /\ LET expected_bitmap == parse_bitmap(call.bitmap)
           actual_bitmap == extract_bitmap(call.address)
       IN  IF ~expected_bitmap.ok
           THEN CliError
           ELSE /\ applied' = Some([ ok |-> TRUE,
                                     match |-> actual_bitmap = expected_bitmap.value ])
                /\ UNCHANGED << createx_address, call, status, base, found, attempts,
                                pending, running, closure_results, result, finished,
                                found_by, derived, evaluated, collected >>

Chunks == 0 .. (U64_MAX \div chunk_size)

Next ==
    \/ MineSaltEnter
    \/ \E s \in Searches, c \in Chunks : ChunkBegin(s, c)
    \/ \E s \in Searches, c \in Chunks : LoopHead(s, c)
    \/ \E s \in Searches, c \in Chunks : Derive(s, c)
    \/ \E s \in Searches, c \in Chunks : Candidate(s, c)
    \/ \E s \in Searches, c \in Chunks : FoundStore(s, c)
    \/ \E s \in Searches, c \in Chunks : ClosureSome(s, c)
    \/ \E s \in Searches : FindMapAnyReturn(s)

NextMultiple ==
    \/ \E s \in Searches : MineMultipleMap(s)
    \/ \E s \in Searches, c \in Chunks : ChunkBegin(s, c)
    \/ \E s \in Searches, c \in Chunks : LoopHead(s, c)
    \/ \E s \in Searches, c \in Chunks : Derive(s, c)
    \/ \E s \in Searches, c \in Chunks : Candidate(s, c)
    \/ \E s \in Searches, c \in Chunks : FoundStore(s, c)
    \/ \E s \in Searches, c \in Chunks : ClosureSome(s, c)
    \/ \E s \in Searches : FindMapAnyReturn(s)
    \/ Collect

Spec == Init /\ [][Next]_vars

SpecMultiple == InitMultiple /\ [][NextMultiple]_vars

\* the threads of the pool keep running: a step that can be taken is taken
FairSpec == Spec /\ WF_vars(Next)

NextBitmap == ApplyBitmap

SpecBitmap == InitBitmap /\ [][NextBitmap]_vars

\* the pool has one thread, which takes the chunks in increasing order
ChunkBeginInOrder(s, chunk_idx) ==
    /\ ActiveClosures = 0
    /\ \A c \in pending[s] : chunk_idx <= c
    /\ ChunkBegin(s, chunk_idx)

NextSequential ==
    \/ MineSaltEnter
    \/ \E s \in Searches, c \in Chunks : ChunkBeginInOrder(s, c)
    \/ \E s \in Searches, c \in Chunks : LoopHead(s, c)
    \/ \E s \in Searches, c \in Chunks : Derive(s, c)
    \/ \E s \in Searches, c \in Chunks : Candidate(s, c)
    \/ \E s \in Searches, c \in Chunks : FoundStore(s, c)
    \/ \E s \in Searches, c \in Chunks : ClosureSome(s, c)
    \/ \E s \in Searches : FindMapAnyReturn(s)

SpecSequential == Init /\ [][NextSequential]_vars

NextCli ==
    \/ CliMine
    \/ CliMineAll
    \/ CliVerify
    \/ MineSaltEnter
    \/ NextMultiple

SpecCli == InitCli /\ [][NextCli]_vars

NextDerive == ApplyDerive

SpecDerive == InitDerive /\ [][NextDerive]_vars

NextBitmapPair == ApplyBitmapPair

SpecBitmapPair == InitBitmapPair /\ [][NextBitmapPair]_vars

(***************************************************************************)
(* Outcomes                                                                *)
(***************************************************************************)
Returned(s) == status[s] = "returned"

\* the Option<MiningResult> a returned search gave
RetVal(s) == result[s][1]

\* the call has ended: it returned or it panicked
Ended(s) == status[s] \in { "returned", "panicked" }

\* counter i of search s gives a matching address
Matches(s, i) ==
    matches_bitmap(compute_create3_address(CounterSalt(base[s], i), createx_address),
                   target_bitmap(s))

(***************************************************************************)
(* Claims                                                                  *)
(***************************************************************************)
\* C1: soundness of mine_salt.  Whenever mine_salt returns Some(r), r.address
\* is the CREATE3 address of r.salt and the factory, r.bitmap is the bitmap
\* extracted from r.address, and r.bitmap is the target bitmap.
C1_Soundness ==
    \A s \in Searches :
        (Returned(s) /\ RetVal(s) # None) =>
            LET r == RetVal(s)[1]
            IN  /\ r.address = compute_create3_address(r.salt, createx_address)
                /\ r.bitmap = extract_bitmap(r.address)
                /\ r.bitmap = target_bitmap(s)

\* C1 witness: a call returned Some after two closures had each found a match
C1_Witness ==
    \E s \in Searches :
        /\ Returned(s) /\ RetVal(s) # None
        /\ Cardinality(closure_results[s]) >= 2

\* C2: completeness of a bounded search.  When a call with max_attempts # 0
\* returns and some counter below max_attempts matches, it returns Some.
C2_Completeness ==
    \A s \in Searches :
        ( /\ Returned(s)
          /\ max_attempts # 0
          /\ \E i \in 0 .. max_attempts - 1 : Matches(s, i) )
        => RetVal(s) # None

\* C3: exhaustion.  When the call has ended with max_attempts # 0 and no
\* counter below max_attempts matches, it returned None: no error, no result.
C3_Exhaustion ==
    \A s \in Searches :
        ( /\ Ended(s)
          /\ max_attempts # 0
          /\ \A i \in 0 .. max_attempts - 1 : ~Matches(s, i) )
        => (Returned(s) /\ RetVal(s) = None)

\* C4: form of the returned salt.  When a call with max_attempts # 0 returns
\* Some(r), there is a counter i < max_attempts with bytes 0..24 of r.salt
\* equal to those of the base salt and bytes 24..32 equal to those of the
\* base salt XOR the big-endian 8-byte encoding of i.
C4_SaltForm ==
    \A s \in Searches :
        (Returned(s) /\ RetVal(s) # None /\ max_attempts # 0) =>
            LET r == RetVal(s)[1]
            IN  \E i \in 0 .. max_attempts - 1 :
                    /\ \A k \in 1 .. 24 : r.salt[k] = base[s][k]
                    /\ \A j \in 1 .. 8 :
                           r.salt[24 + j] = BitXor(base[s][24 + j], to_be_bytes(i)[j])

\* C4 witness: a bounded call on a base salt with bits in its counter bytes
\* returned the salt of a counter other than 0
C4_Witness ==
    \E s \in Searches :
        /\ Returned(s) /\ RetVal(s) # None /\ max_attempts # 0
        /\ base[s] = TailSalt
        /\ RetVal(s)[1].salt # base[s]

\* C5: a call with max_attempts = 0 never returns None.
C5_UnlimitedNeverNone ==
    \A s \in Searches :
        (Returned(s) /\ max_attempts = 0) => RetVal(s) # None

\* C6: termination of a bounded search.  With max_attempts # 0 the call
\* returns after the workers together evaluated at most max_attempts
\* candidates: the count never passes max_attempts, and until the call has
\* returned some worker can take a step, so that under fair scheduling it
\* goes on to the return (every step before the return advances a closure or
\* ends one, and there are finitely many).
C6_Termination ==
    (call.fn = "mine_salt" /\ max_attempts # 0) =>
        /\ attempts[1] <= max_attempts
        /\ Returned(1) \/ ENABLED Next

\* the counters of the chunks of a search of max_attempts m
ChunkCounters(c, m) == ChunkStart(c) .. ChunkEnd(c, m) - 1

\* mine_salt run alone on base salt b, target t and max_attempts m can return
\* the first match of any of its chunks, and None when no chunk has a match
AloneFirstMatches(b, t, m) ==
    LET Match(i) ==
            matches_bitmap(compute_create3_address(CounterSalt(b, i), createx_address), t)
    IN  { i \in 0 .. U64_MAX :
            \E c \in 0 .. max_chunks(m) - 1 :
                /\ i \in ChunkCounters(c, m)
                /\ Match(i)
                /\ \A j \in ChunkCounters(c, m) : j < i => ~Match(j) }

\* all the counters of a search of max_attempts m
AloneCounters(m) == UNION { ChunkCounters(c, m) : c \in 0 .. max_chunks(m) - 1 }

\* what belongs to one search
SearchState(s) ==
    << status[s], base[s], found[s], attempts[s], pending[s], running[s],
       closure_results[s], result[s], found_by[s], derived[s], evaluated[s] >>

\* C7: batch independence.  A target of mine_multiple returns what mine_salt
\* alone returns on its bitmap, its name-derived base salt and the same
\* max_attempts: None exactly when no chunk has a match, and then after all
\* its counters were evaluated, else the first match of one of its chunks;
\* and a step of one target's search changes nothing of another's.
C7_BatchIndependence ==
    /\ [](\A s \in Searches :
            Returned(s) =>
                LET b == NameSalt(call.effects[s][1])
                    t == call.effects[s][2]
                    W == AloneFirstMatches(b, t, max_attempts)
                IN  IF W = {}
                    THEN /\ RetVal(s) = None
                         /\ attempts[s] = Cardinality(AloneCounters(max_attempts))
                    ELSE /\ RetVal(s) # None
                         /\ \E i \in W :
                              /\ RetVal(s)[1].salt = CounterSalt(b, i)
                              /\ RetVal(s)[1].address =
                                    compute_create3_address(CounterSalt(b, i), createx_address))
    /\ [][\A s, o \in Searches :
            (s # o /\ SearchState(s)' # SearchState(s)) => SearchState(o)' = SearchState(o)]_vars

\* C7 witness: of two targets the first to return found a match and the other
\* then ran through all its counters and returned None
C7_Witness ==
    /\ call.fn = "mine_multiple"
    /\ Len(finished) = 2
    /\ RetVal(finished[1]) # None
    /\ RetVal(finished[2]) = None
    /\ attempts[finished[2]] = max_attempts
    /\ attempts[finished[2]] > chunk_size

\* C8: batch result shape.  mine_multiple returns one (name, result) pair per
\* input target, with that target's name and result, in input order, and
\* each Some result has that target's bitmap.
C8_BatchShape ==
    collected # None =>
        LET out == collected[1]
        IN  /\ Len(out) = Len(call.effects)
            /\ \A s \in 1 .. Len(call.effects) :
                  /\ out[s][1] = call.effects[s][1]
                  /\ out[s][2] = RetVal(s)
                  /\ out[s][2] # None => out[s][2][1].bitmap = call.effects[s][2]

\* C8 witness: two targets of different names, the second returned first,
\* and it returned Some
C8_Witness ==
    /\ collected # None
    /\ finished = << 2, 1 >>
    /\ call.effects[1][1] # call.effects[2][1]
    /\ RetVal(2) # None

\* C9: name-derived base salt.  The base salt of a target named n has the
\* first min(len(n), 20) bytes of n and zeros elsewhere; a salt returned for
\* it has the name bytes in positions 0..20, zeros in 20..24 and the
\* big-endian counter in 24..32.
C9_NameSalt ==
    \A s \in Searches :
        LET n == call.effects[s][1]
            NameByte(k) == IF k <= 20 /\ k <= Len(n) THEN n[k] ELSE 0
        IN  /\ status[s] # "new" => \A k \in 1 .. 32 : base[s][k] = NameByte(k)
            /\ (Returned(s) /\ RetVal(s) # None) =>
                  LET salt == RetVal(s)[1].salt
                  IN  /\ \A k \in 1 .. 20 : salt[k] = NameByte(k)
                      /\ \A k \in 21 .. 24 : salt[k] = 0
                      /\ \E i \in 0 .. U64_MAX :
                            \A j \in 1 .. 8 : salt[24 + j] = to_be_bytes(i)[j]

\* C9 witness: a target with a name of 22 bytes returned the salt of a
\* counter other than 0
C9_Witness ==
    \E s \in Searches :
        /\ Len(call.effects[s][1]) > 20
        /\ Returned(s) /\ RetVal(s) # None
        /\ RetVal(s)[1].salt[32] # 0

\* C10: extract_bitmap gives ((b0 * 256 + b1) >> 7) = 2 * b0 + (b1 >> 7), a
\* value in [0, 511]; 0x21,0x00 give 0x042 and 0xF0,0x00 give 0x1E0; and
\* matches_bitmap is true exactly when that value is the target.
C10_ExtractBitmap ==
    applied # None =>
        LET b0 == call.address[1]
            b1 == call.address[2]
            o == applied[1]
        IN  /\ o.bitmap = (b0 * 256 + b1) \div 128
            /\ o.bitmap = 2 * b0 + (b1 \div 128)
            /\ o.bitmap \in 0 .. 511
            /\ (b0 = 33 /\ b1 = 0) => o.bitmap = 66
            /\ (b0 = 240 /\ b1 = 0) => o.bitmap = 480
            /\ \A t \in ProbeTargets : o.matches[t] <=> (2 * b0 + (b1 \div 128) = t)

\* C10 witness: the functions applied to an address that begins 0x21, 0x00
C10_Witness ==
    /\ applied # None
    /\ call.address[1] = 33 /\ call.address[2] = 0
    /\ applied[1].bitmap = 66
    /\ applied[1].matches[66]

\* C11: locality of extract_bitmap.  Two addresses with the same bytes 0 and 1
\* have the same bitmap, whatever their bytes 2..20 are.
C11_Locality ==
    (applied # None /\ call.fn = "bitmap_pair") =>
        ( (call.address[1] = call.other[1] /\ call.address[2] = call.other[2])
          => applied[1].bitmap = applied[1].other_bitmap )

\* C11 witness: extract_bitmap applied to two addresses that agree on bytes 0
\* and 1 and differ in byte 2 and in byte 19
C11_Witness ==
    /\ applied # None /\ call.fn = "bitmap_pair"
    /\ call.address[1] = call.other[1] /\ call.address[2] = call.other[2]
    /\ call.address[3] # call.other[3]
    /\ call.address[20] # call.other[20]
    /\ applied[1].bitmap = applied[1].other_bitmap

\* C13: derivation pipeline.  The address is bytes 12..32 of
\* hash(0xD6, 0x94 ++ P ++ 0x01), P being bytes 12..32 of
\* hash(0xFF ++ factory ++ salt ++ PROXY_INIT_CODE_HASH); the first buffer
\* has 85 bytes and the second 23.
C13_Pipeline ==
    (call.fn = "derive" /\ Len(applied) > 0) =>
        LET low20(h) == [k \in 1 .. 20 |-> h[12 + k]]
            bufA == << 255 >> \o createx_address \o call.salt \o PROXY_INIT_CODE_HASH
            P == low20(keccak256(bufA))
            bufB == << 214, 148 >> \o P \o << 1 >>
        IN  /\ applied[1] = low20(keccak256(bufB))
            /\ Len(bufA) = 85 /\ Len(bufB) = 23
            /\ Create2Data(createx_address, call.salt, PROXY_INIT_CODE_HASH) = bufA
            /\ CreateNonce1Data(
                   compute_create2_address(createx_address, call.salt,
                                           PROXY_INIT_CODE_HASH)) = bufB

\* C13 witness: the address of a name-derived salt under the second factory
C13_Witness ==
    /\ call.fn = "derive" /\ Len(applied) > 0
    /\ createx_address = OTHER_FACTORY
    /\ call.salt = NameSalt(NameLong)

\* the first matching counter of chunk c of search s, as a set: empty when
\* the chunk has no match
ChunkFirstMatch(s, c) ==
    { i \in ChunkCounters(c, max_attempts) :
        /\ Matches(s, i)
        /\ \A j \in ChunkCounters(c, max_attempts) : j < i => ~Matches(s, j) }

\* the salts of the matches found by the closures of the chunks in cs
FoundSalts(s, cs) ==
    { CounterSalt(base[s], i) : i \in UNION { ChunkFirstMatch(s, c) : c \in cs } }

\* C14 as stated: the result returned is the match of the worker that found
\* its match first, the first to store the found flag.
C14_FirstFinder ==
    \A s \in Searches :
        (Returned(s) /\ RetVal(s) # None) =>
            /\ found_by[s] # << >>
            /\ RetVal(s)[1].salt \in FoundSalts(s, { found_by[s][1].chunk })

\* C14 as amended: the result returned is the match of one of the workers
\* that found a match, not necessarily of the first of them, and exactly one
\* result is returned when one or several workers found a match: None is
\* returned only when no worker found one.
C14_RaceWinner ==
    \A s \in Searches :
        Returned(s) =>
            IF found_by[s] = << >>
            THEN RetVal(s) = None
            ELSE /\ RetVal(s) # None
                 /\ RetVal(s)[1] \in closure_results[s]
                 /\ RetVal(s)[1].salt \in
                        FoundSalts(s, { found_by[s][k].chunk : k \in 1 .. Len(found_by[s]) })

\* C14 witness: two workers each found a match and the call returned the one
\* of the larger counter, a counter above the smallest matching counter
C14_Witness ==
    /\ call.fn = "mine_salt" /\ max_attempts # 0
    /\ Returned(1) /\ RetVal(1) # None
    /\ Len(found_by[1]) >= 2
    /\ \E i, j \in 0 .. max_attempts - 1 :
          /\ j < i
          /\ Matches(1, j)
          /\ RetVal(1)[1].salt = CounterSalt(base[1], i)

\* C15: out-of-range bitmap literals are rejected.  A literal whose value is
\* above 511 given to Mine, MineAll or Verify ends the command with an error,
\* and no search has a target outside [0, 511].
C15_RejectOutOfRange ==
    /\ \A s \in Searches : target_bitmap(s) \in 0 .. 511
    /\ (call.fn = "cli" /\ applied # None) =>
          LET v == parse_bitmap(call.bitmap)
          IN  (v.ok /\ v.value > 511) => ~applied[1].ok

\* C16: chunk partition of a bounded search.  For max_attempts in
\* 1 .. U64_MAX a call that has set up its search dispatches
\* ceil(max_attempts / chunk_size) chunks, every counter below max_attempts
\* lies in exactly one of them, the last chunk ends at max_attempts, and no
\* closure is at a counter at or above max_attempts.
C16_ChunkPartition ==
    \A s \in Searches :
        (status[s] # "new" /\ max_attempts # 0) =>
            LET n == (max_attempts + chunk_size - 1) \div chunk_size
            IN  /\ status[s] # "panicked"
                /\ max_chunks(max_attempts) = n
                /\ pending[s] \cup DOMAIN running[s] \subseteq 0 .. n - 1
                /\ \A i \in 0 .. max_attempts - 1 :
                      Cardinality({ c \in 0 .. max_chunks(max_attempts) - 1 :
                                      i \in ChunkCounters(c, max_attempts) }) = 1
                /\ ChunkEnd(n - 1, max_attempts) = max_attempts
                /\ \A c \in DOMAIN running[s] :
                      running[s][c].pc \in { "body", "count" } => running[s][c].i < max_attempts

\* C17: coverage of an unlimited search.  With max_attempts = 0 every counter
\* below U64_MAX lies in a dispatched chunk, so that a search that returns
\* None has evaluated them all, and no chunk's start or end passes U64_MAX.
C17_UnlimitedCoverage ==
    \A s \in Searches :
        (status[s] # "new" /\ max_attempts = 0) =>
            /\ \A i \in 0 .. U64_MAX - 1 :
                  \E c \in 0 .. max_chunks(0) - 1 : i \in ChunkCounters(c, 0)
            /\ \A c \in 0 .. max_chunks(0) - 1 :
                  ChunkStart(c) <= U64_MAX /\ ChunkEnd(c, 0) <= U64_MAX
            /\ (Returned(s) /\ RetVal(s) = None) => attempts[s] = U64_MAX

\* the counter whose salt result r of search s carries, as a set
CounterOf(s, r) == { i \in 0 .. U64_MAX : r.salt = CounterSalt(base[s], i) }

\* C18: attempt count in the result.  When mine_salt returns Some(r),
\* r.attempts is at least 1, at most the number of candidates the workers
\* have evaluated, and for a bounded search at most max_attempts.
C18_Attempts ==
    \A s \in Searches :
        (Returned(s) /\ RetVal(s) # None) =>
            LET r == RetVal(s)[1]
            IN  /\ r.attempts >= 1
                /\ r.attempts <= attempts[s]
                /\ max_attempts # 0 => r.attempts <= max_attempts

\* C18 witness: two workers found a match; the result returned has an
\* attempt count above its counter's index + 1, and the result of the other
\* worker has one below its counter's index + 1
C18_Witness ==
    /\ Returned(1) /\ RetVal(1) # None
    /\ \E i \in CounterOf(1, RetVal(1)[1]) : RetVal(1)[1].attempts > i + 1
    /\ \E o \in closure_results[1] :
          \E i \in CounterOf(1, o) : o.attempts < i + 1

C20_Sequential ==
    (Returned(1) /\ max_attempts # 0) =>
        LET ms == { i \in 0 .. max_attempts - 1 : Matches(1, i) }
        IN  IF ms = {}
            THEN RetVal(1) = None
            ELSE /\ RetVal(1) # None
                 /\ \E i \in ms :
                       /\ \A j \in ms : i <= j
                       /\ RetVal(1)[1].salt = CounterSalt(base[1], i)
                       /\ RetVal(1)[1].attempts = i + 1


\* the closures of a search that have derived an address and not yet counted
\* the attempt (between miner.rs:80 and miner.rs:82)
Counting(s) == { c \in DOMAIN running[s] : running[s][c].pc = "count" }

\* found is never reset, and attempts grows by one exactly in the steps in
\* which a closure leaves the count of its candidate
C21_Steps ==
    \A s \in Searches :
        /\ found[s] => found'[s]
        /\ attempts'[s] =
              attempts[s] + (IF \E c \in Counting(s) :
                                    \/ c \notin DOMAIN running'[s]
                                    \/ running'[s][c].pc # "count"
                             THEN 1 ELSE 0)

\* C21 as stated: monotonic shared state.  found only changes from false to
\* true, attempts never decreases and grows by one per candidate evaluated,
\* and in every reachable state attempts equals the number of candidates
\* whose address has been derived.
C21_CounterEqualsDerived ==
    /\ [][C21_Steps]_vars
    /\ [](\A s \in Searches : attempts[s] = derived[s])

\* C21 amended: monotonic shared state.  found only changes from false to
\* true, attempts never decreases and grows by one per candidate evaluated,
\* and in every reachable state attempts falls short of the number of
\* derived addresses by the number of workers that have derived an address
\* and not yet counted it, the two being equal once the call has returned.
C21_Monotonic ==
    /\ [][C21_Steps]_vars
    /\ [](\A s \in Searches :
              /\ derived[s] = attempts[s] + Cardinality(Counting(s))
              /\ Returned(s) => attempts[s] = derived[s])

\* C21 witness: a worker is about to read attempts for its result while the
\* other has derived an address that is not yet counted
C21_Witness ==
    /\ found[1]
    /\ \E c \in DOMAIN running[1] : running[1][c].pc = "some"
    /\ Counting(1) # {}
    /\ derived[1] = attempts[1] + 1

\* the matches the workers of search s hold: the candidate of a closure
\* past its store to found and the results of the closures that returned
MatchesHeld(s) ==
    { [ salt |-> running[s][c].salt, address |-> running[s][c].address ] :
          c \in { d \in DOMAIN running[s] : running[s][d].pc = "some" } }
    \cup { [ salt |-> r.salt, address |-> r.address ] : r \in closure_results[s] }

\* C22: found flag agrees with the outcome.  In every reachable state found
\* is true only if some worker has evaluated a counter whose derived address
\* matches the target, and when mine_salt returns the result is Some exactly
\* when found is true.
C22_FoundAgrees ==
    \A s \in Searches :
        /\ found[s] =>
              /\ attempts[s] >= 1
              /\ \E m \in MatchesHeld(s) :
                    /\ matches_bitmap(m.address, target_bitmap(s))
                    /\ \E i \in CounterOf(s, m) :
                          /\ Matches(s, i)
                          /\ \E c \in Chunks : i \in ChunkCounters(c, max_attempts)
        /\ Returned(s) => (RetVal(s) # None <=> found[s])

\* C22 witness: a call returned Some with found true after two workers each
\* stored found
C22_Witness ==
    /\ Returned(1) /\ RetVal(1) # None /\ found[1]
    /\ Len(found_by[1]) = 2

\* C23: a target outside [0, 511] is never matched.  For a target bitmap
\* above 511 no address a worker derived matches, found stays false and no
\* closure returns Some; the call does not fail, and when it ends it has
\* returned None after evaluating all max_attempts candidates of a bounded
\* search, and all U64_MAX counters of an unlimited one.
C23_OutOfRange ==
    \A s \in Searches :
        target_bitmap(s) > 511 =>
            /\ \A c \in Counting(s) :
                  ~matches_bitmap(running[s][c].address, target_bitmap(s))
            /\ ~found[s] /\ closure_results[s] = {}
            /\ status[s] # "panicked"
            /\ Returned(s) =>
                  /\ RetVal(s) = None
                  /\ attempts[s] = (IF max_attempts # 0 THEN max_attempts ELSE U64_MAX)

\* C24: the counter-to-salt mapping is injective and anchored at the base
\* salt.  Counter 0 maps to the base salt of the search, distinct counters map
\* to distinct salts, the chunks of the search are pairwise disjoint, and no
\* salt has been evaluated twice: the salts evaluated are as many as the
\* addresses derived.
C24_Injective ==
    \A s \in Searches :
        status[s] = "running" =>
            /\ CounterSalt(base[s], 0) = base[s]
            /\ Cardinality({ CounterSalt(base[s], i) : i \in 0 .. U64_MAX }) = U64_MAX + 1
            /\ \A c, d \in 0 .. max_chunks(max_attempts) - 1 :
                  c < d => ChunkCounters(c, max_attempts)
                              \cap ChunkCounters(d, max_attempts) = {}
            /\ Cardinality(evaluated[s]) = derived[s]

\* C24 witness: a search on a base salt with bits set in the counter bytes has
\* evaluated the counters of three chunks, counter 0 among them
C24_Witness ==
    /\ status[1] = "running"
    /\ base[1] = TailSalt
    /\ base[1] \in evaluated[1]
    /\ derived[1] = MaxAttempts
    /\ Cardinality(evaluated[1]) = MaxAttempts

\* the first 20 bytes of a name, zero-padded to 20 bytes
Prefix20(name) == [k \in 1 .. 20 |-> IF k <= Len(name) THEN name[k] ELSE 0]

\* the salts of the counters of search s, by counter
SaltSequence(s) == [i \in 0 .. U64_MAX |-> CounterSalt(base[s], i)]

\* the candidate salts of search s
CandidateSalts(s) == { SaltSequence(s)[i] : i \in 0 .. U64_MAX }

\* C25: distinct targets get distinct salts in a batch.  Of two targets of
\* mine_multiple whose names differ within their first 20 bytes, zero-padded,
\* every candidate salt of one differs from every candidate salt of the
\* other, whatever their bitmaps: no salt is evaluated for both, and the salts
\* returned for them differ.  Two targets whose names agree on those 20 bytes
\* and whose bitmaps are equal scan the same salt sequence, and have evaluated
\* the same salts when both returned None.
C25_DistinctSalts ==
    \A s, o \in Searches :
        (s < o /\ status[s] # "new" /\ status[o] # "new") =>
            IF Prefix20(call.effects[s][1]) # Prefix20(call.effects[o][1])
            THEN /\ CandidateSalts(s) \cap CandidateSalts(o) = {}
                 /\ evaluated[s] \cap evaluated[o] = {}
                 /\ \A r \in closure_results[s], q \in closure_results[o] :
                       r.salt # q.salt
            ELSE call.effects[s][2] = call.effects[o][2] =>
                    /\ SaltSequence(s) = SaltSequence(o)
                    /\ evaluated[s] \subseteq CandidateSalts(o)
                    /\ (Returned(s) /\ Returned(o)
                        /\ RetVal(s) = None /\ RetVal(o) = None) =>
                           evaluated[s] = evaluated[o]

\* C25 witness: two targets with different names and the same bitmap have each
\* evaluated candidates, and the first has a result
C25_Witness ==
    /\ call.fn = "mine_multiple" /\ Len(call.effects) = 2
    /\ Prefix20(call.effects[1][1]) # Prefix20(call.effects[2][1])
    /\ call.effects[1][2] = call.effects[2][2]
    /\ closure_results[1] # {}
    /\ Cardinality(evaluated[1]) >= 2
    /\ Cardinality(evaluated[2]) >= 2

=============================================================================
